---- MODULE Spec2Model ----
(***************************************************************************)
(* Model of the conversational database agent (src/database_agent.py):     *)
(* the translation of a classified intent into a MongoDB query descriptor, *)
(* its execution against the driver, the formatting of the answer, the     *)
(* conversation memory and the agent operations built on them.             *)
(*                                                                         *)
(* Python values are modelled as follows.  A dict with optional keys is a  *)
(* record with a field "keys" naming the keys that are present.  None is   *)
(* the string NONE.  A text is a sequence of tokens (strings); an f-string *)
(* is the concatenation of its parts, and "x in text" is Contains.         *)
(***************************************************************************)
EXTENDS Integers, Sequences, FiniteSets, TLC

VARIABLES
    db,                 \* live database: collection name -> number of documents
    max_query_results,  \* config.agent.max_query_results
    max_conversation_history, \* config.agent.max_conversation_history
    classification,     \* the intent handed over by the classifier
    query_dict,         \* the descriptor produced by translate_to_mongodb_query
    query_result,       \* the QueryResult produced by execute_query
    response,           \* the text produced by _generate_response
    exception,          \* the exception that left the last operation, or NoExc
    driver_ops,         \* the driver operations issued by the last execute_query
    discovery_ops,      \* the driver operations issued by the last discover_schema
    steps,              \* the steps the last process_query call went through, in order
    context,            \* the conversation context the last get_conversation_context returned
    prompt,             \* the arguments and the messages of the last classifier call
    previous,           \* the context and the prompt of the process_query call before the last
    collection_info,    \* the argument and the value of the last get_collection_info
    client,             \* ConversationalDatabaseAgent.client: 0 is None, k the k-th MongoClient
    managers,           \* the client schema_manager and query_executor hold, 0 if they are None
    schema_cache,       \* DatabaseSchemaManager.schema_cache
    conversation_log,   \* ConversationMemoryManager.conversation_log
    messages,           \* ConversationMemoryManager.memory.chat_memory.messages
    cleared,            \* clear_memory was called and no exchange was added since
    insight,            \* the last ConversationInsight returned
    conversation_text,  \* the conversation text of the last insight prompt
    calls,              \* number of process_query calls made
    last                \* the operation that produced the current state

vars == <<db, max_query_results, max_conversation_history, classification,
          query_dict, query_result, response, exception, driver_ops, discovery_ops,
          steps, context, prompt, previous, collection_info, client, managers,
          schema_cache, conversation_log, messages, cleared, insight,
          conversation_text, calls, last>>

configVars == <<db, max_query_results, max_conversation_history>>
callVars == <<classification, query_dict, query_result, response, driver_ops,
              discovery_ops, steps, context, prompt, previous, collection_info>>
connVars == <<client, managers, schema_cache>>
memVars == <<conversation_log, messages, cleared>>

----------------------------------------------------------------------------
(* Bounds of the model *)

\* documents per live collection range over 0..MaxDocs
MaxDocs == 3
\* config.agent.max_query_results ranges over 0..MaxLimit
MaxLimit == 2
\* process_query calls per session
MaxCalls == 2
\* config.agent.max_conversation_history ranges over 0..MaxHistory
MaxHistory == 1
\* the elapsed time of a call ranges over 1..MaxElapsed milliseconds
MaxElapsed == 2
\* connect_database calls per session
MaxConnects == 1
\* further connect_database calls in a session that connects again
MaxReconnects == 1
\* add_exchange calls between two clear_memory calls, when the memory manager
\* is driven directly
MaxExchanges == 6

----------------------------------------------------------------------------
(* Python values *)

NONE == "<None>"
ABSENT == "<absent>"
NoExc == "<no exception>"

\* str(x) for a name or None
Str(x) == IF x = NONE THEN "None" ELSE x

Min(a, b) == IF a <= b THEN a ELSE b

\* "sub in text" on token sequences
Contains(text, sub) ==
    \E i \in 1..(Len(text) - Len(sub) + 1) : SubSeq(text, i, i + Len(sub) - 1) = sub

\* d.get(k, default)
Get(d, k, default) == IF k \in d.keys THEN d[k] ELSE default

----------------------------------------------------------------------------
(* config.py *)

\* SAMPLE_ANALYTICS_SCHEMA: the field names of each static collection, in order
StaticFields(c) ==
    CASE c = "accounts" -> <<"_id", "account_id", "limit", "products">>
      [] c = "customers" -> <<"_id", "username", "name", "address", "birthdate",
                              "email", "accounts", "tier_and_details">>
      [] c = "transactions" -> <<"_id", "account_id", "transaction_count",
                                 "bucket_start_date", "bucket_end_date", "transactions">>
      [] OTHER -> <<>>

SAMPLE_ANALYTICS_SCHEMA == {"accounts", "customers", "transactions"}

StaticDescription(c) ==
    CASE c = "accounts" -> "Customer account information including credit limits and products"
      [] c = "customers" -> "Customer profile information and contact details"
      [] c = "transactions" -> "Financial transaction records with amounts and dates"
      [] OTHER -> ""

----------------------------------------------------------------------------
(* The intent object returned by classify_query *)

Filter(present, cond) == [present |-> present, cond |-> cond]
Fields(present, names) == [present |-> present, names |-> names]

\* an intent dict; a string argument ABSENT, or present = FALSE, leaves the key out
MkIntent(qt, c, ef, fl, ag) ==
    [ dict |-> TRUE,
      keys |-> {"intent", "confidence"}
               \cup (IF qt = ABSENT THEN {} ELSE {"query_type"})
               \cup (IF c = ABSENT THEN {} ELSE {"collection"})
               \cup (IF ef.present THEN {"extracted_fields"} ELSE {})
               \cup (IF fl.present THEN {"filters"} ELSE {})
               \cup (IF ag = ABSENT THEN {} ELSE {"aggregation_type"}),
      query_type |-> qt,
      collection |-> c,
      intent |-> "description",
      confidence |-> 9,
      extracted_fields |-> ef.names,
      filters |-> fl.cond,
      aggregation_type |-> ag ]

\* a JSON answer that is not an object (a list, a string, a number)
NonDictIntent ==
    [ dict |-> FALSE, keys |-> {}, query_type |-> ABSENT, collection |-> ABSENT,
      intent |-> "", confidence |-> 0, extracted_fields |-> <<>>, filters |-> {},
      aggregation_type |-> ABSENT ]

\* the default intent of classify_query's exception handler
DefaultIntent(query) ==
    [ dict |-> TRUE,
      keys |-> {"query_type", "collection", "intent", "confidence",
                "extracted_fields", "filters", "aggregation_type"},
      query_type |-> "unknown",
      collection |-> "unknown",
      intent |-> query,
      confidence |-> 0,
      extracted_fields |-> <<>>,
      filters |-> {},
      aggregation_type |-> NONE ]

----------------------------------------------------------------------------
(* MongoDBQueryExecutor.translate_to_mongodb_query *)

\* {"$match": cond}
MatchStage(cond) ==
    [stage |-> "$match", cond |-> cond, id |-> <<>>, key |-> "", acc |-> "", arg |-> <<>>]

\* {"$group": {"_id": id, key: {acc: arg}}}
GroupStage(id, key, acc, arg) ==
    [stage |-> "$group", cond |-> {}, id |-> id, key |-> key, acc |-> acc, arg |-> arg]

\* {"$sort": {key: 1}}
SortStage(key) ==
    [stage |-> "$sort", cond |-> {}, id |-> <<>>, key |-> key, acc |-> "", arg |-> <<"1">>]

\* the f-string f"${field}"
FieldRef(field) == <<"$", Str(field)>>

\* {"$group": {"_id": None, "count": {"$sum": 1}}}
CountStage == GroupStage(<<NONE>>, "count", "$sum", <<"1">>)

\* a descriptor dict: the keys named in keys are present
Descriptor(type, keys, collection, filter, limit, pipeline) ==
    [ type |-> type, keys |-> keys, collection |-> collection, filter |-> filter,
      limit |-> limit, pipeline |-> pipeline ]

DefinitionDescriptor(c) == Descriptor("definition", {"type", "collection"}, c, {}, 0, <<>>)
FindDescriptor(c, f, l) ==
    Descriptor("find", {"type", "collection", "filter", "limit"}, c, f, l, <<>>)
CountDescriptor(c, f) == Descriptor("count", {"type", "collection", "filter"}, c, f, 0, <<>>)
AggregateDescriptor(c, p) ==
    Descriptor("aggregate", {"type", "collection", "pipeline"}, c, {}, 0, p)
UnknownDescriptor == Descriptor("unknown", {"type"}, NONE, {}, 0, <<>>)

\* the value of a call: the exception that left it (NoExc if it returned) and
\* the value it returned
Returned(v) == [exc |-> NoExc, value |-> v]
Raised(e, dummy) == [exc |-> e, value |-> dummy]

\* _find_date_field, were it to return the fallback name always
_find_date_field_fallbackOnly(collection_name) == "created_at"

\* lines 235-246
_find_date_field(collection_name) ==
    LET date_fields == <<"date", "created_at", "timestamp", "birthdate",
                         "bucket_start_date", "bucket_end_date">>
        fields == StaticFields(collection_name)
        hits == {i \in 1..Len(date_fields) :
                    \E j \in 1..Len(fields) : fields[j] = date_fields[i]}
    IN  IF collection_name \in SAMPLE_ANALYTICS_SCHEMA /\ hits # {}
        THEN date_fields[CHOOSE i \in hits : \A k \in hits : i <= k]
        ELSE "created_at"

\* lines 191-214: the aggregation branch
TranslateAggregation(cl, collection) ==
    LET agg_type == Get(cl, "aggregation_type", "count")
        ef == Get(cl, "extracted_fields", <<NONE>>)
    IN  IF Len(ef) = 0
        THEN Raised("IndexError", UnknownDescriptor)
        ELSE
          LET field == ef[1]
              truthy == field # NONE /\ field # ""
              match == IF Get(cl, "filters", {}) # {}
                       THEN <<MatchStage(cl.filters)>> ELSE <<>>
              group ==
                IF agg_type = "avg" /\ truthy
                  THEN GroupStage(<<NONE>>, "result", "$avg", FieldRef(field))
                ELSE IF agg_type = "sum" /\ truthy
                  THEN GroupStage(<<NONE>>, "result", "$sum", FieldRef(field))
                ELSE IF agg_type = "max" /\ truthy
                  THEN GroupStage(<<NONE>>, "result", "$max", FieldRef(field))
                ELSE IF agg_type = "min" /\ truthy
                  THEN GroupStage(<<NONE>>, "result", "$min", FieldRef(field))
                ELSE CountStage
          IN  Returned(AggregateDescriptor(collection, match \o <<group>>))

\* lines 216-231: the trend branch
TranslateTrend(collection) ==
    LET date_field == _find_date_field(collection)
    IN  AggregateDescriptor(collection,
            << GroupStage(<<"$dateToString", "%Y-%m", "$", date_field>>,
                          "count", "$sum", <<"1">>),
               SortStage("_id") >>)

\* the definition branch, were it to copy the filters as the other branches do
TranslateDefinition_keepsFilters(cl, collection) ==
    Descriptor("definition", {"type", "collection", "filter"}, collection,
               Get(cl, "filters", {}), 0, <<>>)

\* lines 173-174: the definition branch
TranslateDefinition(cl, collection) == DefinitionDescriptor(collection)

\* lines 167-233
translate_to_mongodb_query(cl, limit) ==
    IF ~cl.dict
    THEN Raised("AttributeError", UnknownDescriptor)
    ELSE
      LET query_type == Get(cl, "query_type", NONE)
          collection == Get(cl, "collection", NONE)
      IN  IF query_type = "definition"
            THEN Returned(TranslateDefinition(cl, collection))
          ELSE IF query_type = "filter"
            THEN Returned(FindDescriptor(collection, Get(cl, "filters", {}), limit))
          ELSE IF query_type = "count"
            THEN Returned(CountDescriptor(collection, Get(cl, "filters", {})))
          ELSE IF query_type = "aggregation"
            THEN TranslateAggregation(cl, collection)
          ELSE IF query_type = "trend"
            THEN Returned(TranslateTrend(collection))
          ELSE Returned(UnknownDescriptor)

----------------------------------------------------------------------------
(* The database behind the driver *)

\* the collections of the database, in the order list_collection_names gives
CollectionOrder == <<"customers", "orders">>

\* the i-th document of a collection
Document(i) ==
    [_id |-> i, limit |-> i % 2, products |-> [k \in 1..(i + 2) |-> "product"]]

\* the documents of a collection holding n documents
Documents(n) == [i \in 1..n |-> Document(i)]

\* db.list_collection_names()
list_collection_names(database) ==
    SelectSeq(CollectionOrder, LAMBDA c : c \in DOMAIN database)

InList(x, list) == \E i \in 1..Len(list) : list[i] = x

\* a filter {field: value, ...} is the set of its <<field, value>> pairs
Matches(doc, cond) == \A p \in cond : doc[p[1]] = p[2]

\* the documents of collection c matching cond; a collection that does not
\* exist reads as empty
Matching(database, c, cond) ==
    SelectSeq(Documents(IF c \in DOMAIN database THEN database[c] ELSE 0),
              LAMBDA d : Matches(d, cond))

\* list(collection.find(cond).limit(limit)): a limit of 0 is no limit, and a
\* negative limit returns at most -limit documents
driver_find(database, c, cond, limit) ==
    LET m == Matching(database, c, cond)
        n == IF limit < 0 THEN 0 - limit ELSE limit
    IN  IF limit = 0 THEN m ELSE SubSeq(m, 1, Min(Len(m), n))

\* collection.count_documents(cond)
driver_count_documents(database, c, cond) == Len(Matching(database, c, cond))

RECURSIVE SumLimit(_)
SumLimit(docs) == IF docs = <<>> THEN 0 ELSE Head(docs).limit + SumLimit(Tail(docs))

MaxLimitOf(docs) == CHOOSE v \in {docs[i].limit : i \in 1..Len(docs)} :
                        \A i \in 1..Len(docs) : docs[i].limit <= v
MinLimitOf(docs) == CHOOSE v \in {docs[i].limit : i \in 1..Len(docs)} :
                        \A i \in 1..Len(docs) : docs[i].limit >= v

\* a document of an aggregation result; a number is <<numerator, denominator>>
\* and null is <<0, 0>>
Row(id, key, value) == [_id |-> id, key |-> key, value |-> value]
Null == <<0, 0>>

\* the accumulator of a $group stage over the documents of one group; only
\* the field "limit" exists in the documents
Accumulate(stage, docs) ==
    IF stage.arg = <<"1">> THEN
        IF stage.acc = "$sum" THEN <<Len(docs), 1>> ELSE <<1, 1>>
    ELSE IF stage.arg = <<"$", "limit">> THEN
        CASE stage.acc = "$sum" -> <<SumLimit(docs), 1>>
          [] stage.acc = "$avg" -> <<SumLimit(docs), Len(docs)>>
          [] stage.acc = "$max" -> <<MaxLimitOf(docs), 1>>
          [] stage.acc = "$min" -> <<MinLimitOf(docs), 1>>
          [] OTHER -> Null
    ELSE IF stage.acc = "$sum" THEN <<0, 1>> ELSE Null

\* list(collection.aggregate(pipeline)) for the pipelines translate builds: an
\* optional $match, one $group into a single group, an optional $sort.  The
\* documents hold no date field, so every $dateToString key is null.
driver_aggregate(database, c, pipeline) ==
    LET first == pipeline[1]
        cond == IF first.stage = "$match" THEN first.cond ELSE {}
        docs == Matching(database, c, cond)
        groups == SelectSeq(pipeline, LAMBDA st : st.stage = "$group")
    IN  IF groups = <<>> THEN <<>>
        ELSE IF docs = <<>> THEN <<>>
        ELSE <<Row(NONE, groups[1].key, Accumulate(groups[1], docs))>>

----------------------------------------------------------------------------
(* MongoDBQueryExecutor.execute_query *)

\* str(e) of the exception a failing driver call raises
DriverError == <<"connection lost">>

\* a driver operation issued on a collection ("" for a database operation);
\* ok is FALSE when the driver raised in it
Op(name, c, ok) == [op |-> name, collection |-> c, ok |-> ok]

StaticRelationships(c) ==
    CASE c = "accounts" -> {"customers"}
      [] c = "customers" -> {"accounts"}
      [] c = "transactions" -> {"accounts"}
      [] OTHER -> {}

\* the values QueryResult.data takes
NoData ==
    [kind |-> "None", docs |-> <<>>, rows |-> <<>>, count |-> 0,
     definition |-> "", fields |-> <<>>, relationships |-> {}]
ListData(docs) == [NoData EXCEPT !.kind = "list", !.docs = docs]
RowsData(rows) == [NoData EXCEPT !.kind = "list", !.rows = rows]
CountData(n) == [NoData EXCEPT !.kind = "count", !.count = n]
DefinitionData(c) ==
    [NoData EXCEPT !.kind = "definition", !.definition = StaticDescription(c),
                   !.fields = StaticFields(c), !.relationships = StaticRelationships(c)]

\* the dataclass QueryResult; error_message <<>> is None
QueryResult(success, data, count, query_type, execution_time_ms, error_message) ==
    [ object |-> "QueryResult", success |-> success, data |-> data, count |-> count,
      query_type |-> query_type, execution_time_ms |-> execution_time_ms,
      error_message |-> error_message ]

\* the value of a function that returns without a return statement
NoneResult == [QueryResult(FALSE, NoData, 0, NONE, 0, <<>>) EXCEPT !.object = "None"]

\* the value of a call that issues driver operations
Outcome(exc, value, ops) == [exc |-> exc, value |-> value, ops |-> ops]

\* _handle_definition, were it to answer for any collection
_handle_definition_anyCollection(collection_name, elapsed) ==
    QueryResult(TRUE, DefinitionData(collection_name), 1, "definition", elapsed, <<>>)

\* _handle_definition, were count the number of fields
_handle_definition_countsFields(collection_name, elapsed) ==
    IF collection_name \in SAMPLE_ANALYTICS_SCHEMA
    THEN QueryResult(TRUE, DefinitionData(collection_name),
                     Len(StaticFields(collection_name)), "definition", elapsed, <<>>)
    ELSE QueryResult(FALSE, NoData, 0, "definition", elapsed,
            <<"No definition available for collection '", Str(collection_name), "'">>)

\* lines 321-345
_handle_definition(collection_name, elapsed) ==
    IF collection_name \in SAMPLE_ANALYTICS_SCHEMA
    THEN QueryResult(TRUE, DefinitionData(collection_name), 1, "definition", elapsed, <<>>)
    ELSE QueryResult(FALSE, NoData, 0, "definition", elapsed,
            <<"No definition available for collection '", Str(collection_name), "'">>)

\* the f-string of line 266
NotFoundMessage(collection_name) ==
    <<"Collection '", Str(collection_name), "' ", "not found">>

\* the collection check, were it to test the name alone
CollectionMissing_skipsList(collection_name, names) ==
    collection_name = NONE \/ collection_name = ""

\* lines 259-267: the collection check; the list is read only for a name that
\* is not None and not empty (the "or" short-circuits)
CollectionMissing(collection_name, names) ==
    collection_name = NONE \/ collection_name = "" \/ ~InList(collection_name, names)

\* the result of a count, were its count field the size of the data dict
CountResult_sizeOfData(count, query_type, elapsed) ==
    QueryResult(TRUE, CountData(count), 1, query_type, elapsed, <<>>)

\* lines 290-296: the result of a count
CountResult(count, query_type, elapsed) ==
    QueryResult(TRUE, CountData(count), count, query_type, elapsed, <<>>)

\* lines 269-308: the operation issued once the collection check has passed;
\* ok tells whether the driver call succeeds
ExecuteOperation(qd, database, ok, elapsed) ==
    LET query_type == Get(qd, "type", NONE)
        c == Get(qd, "collection", NONE)
    IN  IF query_type = "find" THEN
            LET results == driver_find(database, c, Get(qd, "filter", {}),
                                       Get(qd, "limit", 0))
            IN  IF ok
                THEN Outcome(NoExc, QueryResult(TRUE, ListData(results), Len(results),
                                                query_type, elapsed, <<>>),
                             <<Op("find", c, ok)>>)
                ELSE Outcome("DriverError", NoneResult, <<Op("find", c, ok)>>)
        ELSE IF query_type = "count" THEN
            LET count == driver_count_documents(database, c, Get(qd, "filter", {}))
            IN  IF ok
                THEN Outcome(NoExc, CountResult(count, query_type, elapsed),
                             <<Op("count_documents", c, ok)>>)
                ELSE Outcome("DriverError", NoneResult, <<Op("count_documents", c, ok)>>)
        ELSE IF query_type = "aggregate" THEN
            LET results == driver_aggregate(database, c, Get(qd, "pipeline", <<>>))
            IN  IF ok
                THEN Outcome(NoExc, QueryResult(TRUE, RowsData(results), Len(results),
                                                query_type, elapsed, <<>>),
                             <<Op("aggregate", c, ok)>>)
                ELSE Outcome("DriverError", NoneResult, <<Op("aggregate", c, ok)>>)
        ELSE Outcome(NoExc, NoneResult, <<>>)

\* lines 253-308: the body of the try block.  faults holds the numbers of the
\* driver calls that raise; base is the number of driver calls made before.
ExecuteBody(qd, database, faults, base, elapsed) ==
    LET query_type == Get(qd, "type", NONE)
        collection_name == Get(qd, "collection", NONE)
        listOp == Op("list_collection_names", "", (base + 1) \notin faults)
    IN  IF query_type = "definition" THEN
            Outcome(NoExc, _handle_definition(collection_name, elapsed), <<>>)
        ELSE IF collection_name = NONE \/ collection_name = "" THEN
            Outcome(NoExc, QueryResult(FALSE, NoData, 0, query_type, 0,
                                       NotFoundMessage(collection_name)), <<>>)
        ELSE IF (base + 1) \in faults THEN
            Outcome("DriverError", NoneResult, <<listOp>>)
        ELSE IF CollectionMissing(collection_name, list_collection_names(database)) THEN
            Outcome(NoExc, QueryResult(FALSE, NoData, 0, query_type, 0,
                                       NotFoundMessage(collection_name)), <<listOp>>)
        ELSE
            LET r == ExecuteOperation(qd, database, (base + 2) \notin faults, elapsed)
            IN  Outcome(r.exc, r.value, <<listOp>> \o r.ops)

\* execute_query, were the driver calls made outside the try block
execute_query_noHandler(qd, database, faults, base, elapsed) ==
    ExecuteBody(qd, database, faults, base, elapsed)

\* execute_query, were a failed attempt followed by a second one
execute_query_retries(qd, database, faults, base, elapsed) ==
    LET r == ExecuteBody(qd, database, faults, base, elapsed)
        again == ExecuteBody(qd, database, faults, base + Len(r.ops), elapsed)
    IN  IF r.exc = NoExc THEN r
        ELSE IF again.exc = NoExc THEN Outcome(NoExc, again.value, r.ops \o again.ops)
        ELSE Outcome(NoExc,
                     QueryResult(FALSE, NoData, 0, Get(qd, "type", "unknown"),
                                 elapsed, DriverError),
                     r.ops \o again.ops)

\* lines 248-319: the try block and its exception handler
execute_query(qd, database, faults, base, elapsed) ==
    LET r == ExecuteBody(qd, database, faults, base, elapsed)
    IN  IF r.exc = NoExc THEN r
        ELSE Outcome(NoExc,
                     QueryResult(FALSE, NoData, 0, Get(qd, "type", "unknown"),
                                 elapsed, DriverError),
                     r.ops)

----------------------------------------------------------------------------
(* ConversationalDatabaseAgent._generate_response *)

\* sep.join(texts)
RECURSIVE Join(_, _)
Join(texts, sep) ==
    IF texts = <<>> THEN <<>>
    ELSE IF Len(texts) = 1 THEN texts[1]
    ELSE texts[1] \o <<sep>> \o Join(Tail(texts), sep)

\* str(value) of a list of strings
ListText(items) == <<"[">> \o Join([i \in 1..Len(items) |-> <<items[i]>>], ", ") \o <<"]">>

\* str(value) of an aggregation value
NumText(v) ==
    IF v = Null THEN <<"None">>
    ELSE IF v[2] = 1 THEN <<ToString(v[1])>>
    ELSE <<ToString(v[1]), "/", ToString(v[2])>>

\* str(error_message)
MessageText(m) == IF m = <<>> THEN <<"None">> ELSE m

\* lines 551-560: the fields of a document in order, "_id" left out, a list of
\* more than 3 elements cut to its first 3, at most 5 entries kept
_format_document(doc) ==
    LET products ==
            IF Len(doc.products) > 3
            THEN <<"products", ": ">> \o ListText(SubSeq(doc.products, 1, 3))
                 \o <<" (and ", ToString(Len(doc.products) - 3), " more)">>
            ELSE <<"products", ": ">> \o ListText(doc.products)
        formatted == << <<"limit", ": ", ToString(doc.limit)>>, products >>
    IN  Join(SubSeq(formatted, 1, Min(Len(formatted), 5)), " | ")

\* lines 562-564
_format_documents(docs) ==
    Join([i \in 1..Len(docs) |-> <<"* ">> \o _format_document(docs[i])], "\n")

RephraseText == ". Could you please rephrase your question?"

\* the answer to a failed result, were it a fixed sentence
ErrorResponse_generic(error_message) ==
    <<"I encountered an error", RephraseText>>

\* line 521: the answer to a failed result
ErrorResponse(error_message) ==
    <<"I encountered an error: ">> \o MessageText(error_message) \o <<RephraseText>>

\* lines 516-549; qr is the QueryResult (or None) and cl the classification
_generate_response(cl, qr) ==
    IF qr.object = "None" THEN Raised("AttributeError", <<>>)
    ELSE IF ~qr.success THEN Returned(ErrorResponse(qr.error_message))
    ELSE IF "query_type" \notin cl.keys THEN Raised("KeyError", <<>>)
    ELSE IF cl.query_type = "definition" THEN
        IF qr.data.kind = "None" \/ qr.data.kind = "list" THEN Raised("TypeError", <<>>)
        ELSE IF qr.data.kind = "count" \/ "collection" \notin cl.keys
            THEN Raised("KeyError", <<>>)
        ELSE Returned(<<"The ", Str(cl.collection), " collection ", qr.data.definition,
                        ". It contains fields like: ">>
                      \o Join([i \in 1..Len(qr.data.fields) |-> <<qr.data.fields[i]>>], ", ")
                      \o <<".">>)
    ELSE IF cl.query_type = "count" THEN
        IF qr.data.kind = "None" \/ qr.data.kind = "list" THEN Raised("AttributeError", <<>>)
        ELSE IF "collection" \notin cl.keys THEN Raised("KeyError", <<>>)
        ELSE Returned(<<"I found ",
                        ToString(IF qr.data.kind = "count" THEN qr.data.count ELSE 0),
                        " records in the ", Str(cl.collection), " collection.">>)
    ELSE IF cl.query_type = "filter" THEN
        IF qr.count = 0 THEN Returned(<<"I didn't find any records matching your criteria.">>)
        ELSE IF qr.data.kind = "None" THEN Raised("TypeError", <<>>)
        ELSE IF qr.data.kind # "list" THEN Raised("KeyError", <<>>)
        ELSE IF qr.count = 1 THEN
            IF qr.data.docs = <<>> THEN Raised("IndexError", <<>>)
            ELSE Returned(<<"I found 1 record. Here's the information: ">>
                          \o _format_document(qr.data.docs[1]))
        ELSE Returned(<<"I found ", ToString(qr.count), " records. Here are some examples: ">>
                      \o _format_documents(SubSeq(qr.data.docs, 1, Min(Len(qr.data.docs), 3))))
    ELSE IF cl.query_type = "aggregation" THEN
        IF qr.data.kind = "None" \/ (qr.data.kind = "list" /\ qr.data.rows = <<>>)
            THEN Returned(<<"I calculated the result but couldn't format it properly.">>)
        ELSE IF qr.data.kind # "list" THEN Raised("KeyError", <<>>)
        ELSE IF qr.data.rows[1].key = "result"
            THEN Returned(<<"The result is: ">> \o NumText(qr.data.rows[1].value))
        ELSE IF qr.data.rows[1].key = "count"
            THEN Returned(<<"The count is: ">> \o NumText(qr.data.rows[1].value))
        ELSE Returned(<<"I calculated the result but couldn't format it properly.">>)
    ELSE Returned(<<"I processed your query and found ", ToString(qr.count), " results.">>)

----------------------------------------------------------------------------
(* DatabaseSchemaManager.discover_schema *)

\* lines 70-83: the entry of a collection with a non-empty sample
SchemaEntry(database, c, sample) ==
    [ document_count |-> driver_count_documents(database, c, {}),
      fields |-> <<"_id", "limit", "products">>,
      indexes |-> <<"_id_">> ]

\* lines 61-83: the loop over the collections; k driver calls were made before
RECURSIVE DiscoverFrom(_, _, _, _, _, _)
DiscoverFrom(names, database, faults, k, schema, ops) ==
    IF names = <<>> THEN [schema |-> schema, ops |-> ops]
    ELSE
      LET c == Head(names)
          sample == driver_find(database, c, {}, 5)
      IN  IF (k + 1) \in faults THEN
              [schema |-> schema, ops |-> ops \o <<Op("find", c, FALSE)>>]
          ELSE IF sample = <<>> THEN
              DiscoverFrom(Tail(names), database, faults, k + 1, schema,
                           ops \o <<Op("find", c, TRUE)>>)
          ELSE IF (k + 2) \in faults THEN
              [schema |-> schema,
               ops |-> ops \o <<Op("find", c, TRUE), Op("count_documents", c, FALSE)>>]
          ELSE IF (k + 3) \in faults THEN
              [schema |-> schema,
               ops |-> ops \o <<Op("find", c, TRUE), Op("count_documents", c, TRUE),
                                Op("list_indexes", c, FALSE)>>]
          ELSE
              DiscoverFrom(Tail(names), database, faults, k + 3,
                           (c :> SchemaEntry(database, c, sample)) @@ schema,
                           ops \o <<Op("find", c, TRUE), Op("count_documents", c, TRUE),
                                    Op("list_indexes", c, TRUE)>>)

\* the schema holding no collection: {}
EmptySchema == [c \in {} |-> 0]

\* discover_schema, were a failure to discard what was accumulated
discover_schema_allOrNothing(database, faults) ==
    IF 1 \in faults
    THEN [schema |-> EmptySchema, ops |-> <<Op("list_collection_names", "", FALSE)>>]
    ELSE LET r == DiscoverFrom(list_collection_names(database), database, faults, 1,
                               EmptySchema, <<Op("list_collection_names", "", TRUE)>>)
         IN  IF \E i \in 1..Len(r.ops) : ~r.ops[i].ok
             THEN [schema |-> EmptySchema, ops |-> r.ops]
             ELSE r

\* lines 53-89: the schema that is cached and returned, and the driver calls
discover_schema(database, faults) ==
    IF 1 \in faults
    THEN [schema |-> EmptySchema, ops |-> <<Op("list_collection_names", "", FALSE)>>]
    ELSE DiscoverFrom(list_collection_names(database), database, faults, 1, EmptySchema,
                      <<Op("list_collection_names", "", TRUE)>>)

\* SAMPLE_ANALYTICS_SCHEMA[collection_name]
StaticEntry(collection_name) ==
    [ description |-> StaticDescription(collection_name),
      fields |-> StaticFields(collection_name),
      relationships |-> StaticRelationships(collection_name) ]

\* the lookup, were the cache read before the static table
get_collection_info_cacheFirst(collection_name, cache) ==
    IF collection_name \in DOMAIN cache THEN cache[collection_name]
    ELSE IF collection_name \in SAMPLE_ANALYTICS_SCHEMA THEN StaticEntry(collection_name)
    ELSE EmptySchema

\* lines 91-99; {} is the dict holding no key
get_collection_info(collection_name, cache) ==
    IF collection_name \in SAMPLE_ANALYTICS_SCHEMA THEN StaticEntry(collection_name)
    ELSE IF collection_name \in DOMAIN cache THEN cache[collection_name]
    ELSE EmptySchema

----------------------------------------------------------------------------
(* NaturalLanguageProcessor.classify_query *)

\* lines 109-141: the messages of the completion request.  The system prompt
\* embeds the schema and constants of config.py, the user message the query.
ClassifierMessages(query, schema_info) ==
    [system |-> schema_info, user |-> <<"Query: ", query>>]

\* lines 132-156: llm_ok is FALSE when the call raises or the answer is no
\* JSON; llm_json is the parsed answer
classify_query(query, schema_info, llm_ok, llm_json) ==
    IF llm_ok THEN llm_json ELSE DefaultIntent(query)

----------------------------------------------------------------------------
(* ConversationMemoryManager *)

HumanMessage(content) == [type |-> "human", content |-> content]
AIMessage(content) == [type |-> "ai", content |-> content]

\* the exchange, were the result left out of it
Exchange_withoutResult(human_input, ai_output, qr) ==
    [human_input |-> human_input, ai_output |-> ai_output, query_result |-> NoneResult]

\* lines 366-371; query_result.__dict__, or None for a result that is None
Exchange(human_input, ai_output, qr) ==
    [human_input |-> human_input, ai_output |-> ai_output, query_result |-> qr]

\* seq[-n:]
LastN(seq, n) ==
    IF n = 0 \/ n >= Len(seq) THEN seq ELSE SubSeq(seq, Len(seq) - n + 1, Len(seq))

\* lines 373-377: the log after the append
LogAfterExchange(log, exchange, max_history) ==
    LET appended == Append(log, exchange)
    IN  IF Len(appended) > max_history THEN LastN(appended, max_history) ELSE appended

\* lines 361-364: memory.save_context
MessagesAfterExchange(msgs, human_input, ai_output) ==
    msgs \o <<HumanMessage(<<human_input>>), AIMessage(ai_output)>>

\* clear_memory, were it to reset the log alone
clear_memory_keepsContext(log, msgs) == [log |-> <<>>, messages |-> msgs]

\* lines 392-395: memory.clear() and a new empty log
clear_memory(log, msgs) == [log |-> <<>>, messages |-> <<>>]

\* get_conversation_context, were it to read the last 20 messages
get_conversation_context_lastTwenty(msgs) ==
    LET recent == LastN(msgs, 20)
    IN  Join([i \in 1..Len(recent) |->
                IF recent[i].type = "human" THEN <<"Human: ">> \o recent[i].content
                ELSE <<"Assistant: ">> \o recent[i].content], "\n")

\* lines 379-390
get_conversation_context(msgs) ==
    LET recent == LastN(msgs, 10)
    IN  Join([i \in 1..Len(recent) |->
                IF recent[i].type = "human" THEN <<"Human: ">> \o recent[i].content
                ELSE <<"Assistant: ">> \o recent[i].content], "\n")

----------------------------------------------------------------------------
(* InsightExtractor.extract_insights *)

\* the parsed answer of the LLM: a dict with the keys named in keys
InsightAnswer(keys, data_gaps, suggested_queries) ==
    [ dict |-> TRUE, keys |-> keys, user_intent |-> "explore", emotional_tone |-> "curious",
      data_gaps |-> data_gaps, suggested_queries |-> suggested_queries ]

ConversationInsight(user_intent, emotional_tone, data_gaps, suggested_queries) ==
    [ user_intent |-> user_intent, emotional_tone |-> emotional_tone,
      data_gaps |-> data_gaps, suggested_queries |-> suggested_queries ]

\* the conversation text, were the whole log rendered
InsightConversationText_wholeLog(log) ==
    Join([i \in 1..Len(log) |->
            <<"User: ", log[i].human_input, "\nAssistant: ">> \o log[i].ai_output],
         "\n")

\* lines 407-410: the conversation text sent to the LLM
InsightConversationText(log) ==
    LET recent == LastN(log, 5)
    IN  Join([i \in 1..Len(recent) |->
                <<"User: ", recent[i].human_input, "\nAssistant: ">> \o recent[i].ai_output],
             "\n")

\* lines 403-449: the LLM is called whatever the log holds; llm_ok is FALSE
\* when the call raises or the answer is no JSON
extract_insights(log, llm_ok, answer) ==
    IF llm_ok /\ answer.dict
    THEN ConversationInsight(Get(answer, "user_intent", "Unknown"),
                             Get(answer, "emotional_tone", "Neutral"),
                             Get(answer, "data_gaps", <<>>),
                             Get(answer, "suggested_queries", <<>>))
    ELSE ConversationInsight("Unknown", "Neutral", <<>>, <<>>)

----------------------------------------------------------------------------
(* Input sets *)

QueryTypes == {ABSENT, "definition", "filter", "count", "aggregation", "trend",
               "comparison", "unknown"}
CollectionNames == {ABSENT, "customers", "accounts", "transactions", "orders", "ghost"}
ExtractedFields == {Fields(FALSE, <<>>), Fields(TRUE, <<>>), Fields(TRUE, <<"limit">>),
                    Fields(TRUE, <<"name", "limit">>)}
Filters == {Filter(FALSE, {}), Filter(TRUE, {}), Filter(TRUE, {<<"limit", 1>>})}
AggregationTypes == {ABSENT, NONE, "sum", "avg", "max", "min", "count", "median"}

\* what classify_query can hand over
Intents ==
    { MkIntent(qt, c, ef, fl, ag) :
        qt \in QueryTypes, c \in CollectionNames, ef \in ExtractedFields,
        fl \in Filters, ag \in AggregationTypes }
    \cup {NonDictIntent, DefaultIntent("query")}

\* the live databases: some of the collections, each with 0..MaxDocs documents
Databases ==
    UNION { [S -> 0..MaxDocs] : S \in SUBSET {"customers", "orders"} }

Elapsed == 1..MaxElapsed

\* the answers of the LLM to the insight prompt
InsightAnswers ==
    { InsightAnswer({"user_intent", "emotional_tone", "data_gaps", "suggested_queries"},
                    <<"revenue by month">>, <<"What is the average limit?">>),
      InsightAnswer({"user_intent"}, <<>>, <<>>),
      [InsightAnswer({}, <<>>, <<>>) EXCEPT !.dict = FALSE] }

\* the insight call: an answer, or a call or a parse that fails
InsightLLMAnswers ==
    {[ok |-> TRUE, json |-> a] : a \in InsightAnswers}
    \cup {[ok |-> FALSE, json |-> InsightAnswer({}, <<>>, <<>>)]}


\* the state of an agent after __init__ (lines 454-460) and of its results
NoInsight == [user_intent |-> "", emotional_tone |-> "", data_gaps |-> <<>>,
              suggested_queries |-> <<>>]

\* no classifier call, no lookup made yet
ClassifierCall(query, schema_info, answered) ==
    [query |-> query, schema_info |-> schema_info,
     input |-> ClassifierMessages(query, schema_info), answered |-> answered]
NoPrompt == [query |-> "", schema_info |-> EmptySchema,
             input |-> [system |-> EmptySchema, user |-> <<>>], answered |-> FALSE]
NoCall == [made |-> FALSE, context |-> <<>>, prompt |-> NoPrompt]
NoInfo == [name |-> NONE, info |-> EmptySchema]

Fresh ==
    /\ query_result = NoneResult
    /\ response = <<>>
    /\ exception = NoExc
    /\ driver_ops = <<>>
    /\ discovery_ops = <<>>
    /\ steps = <<>>
    /\ context = <<>>
    /\ prompt = NoPrompt
    /\ previous = NoCall
    /\ collection_info = NoInfo
    /\ cleared = FALSE
    /\ client = 0
    /\ managers = 0
    /\ schema_cache = EmptySchema
    /\ conversation_log = <<>>
    /\ messages = <<>>
    /\ insight = NoInsight
    /\ conversation_text = <<>>
    /\ calls = 0
    /\ last = "init"

----------------------------------------------------------------------------
(* translate_to_mongodb_query applied to every intent *)

InitTranslate ==
    /\ Fresh
    /\ db \in {[c \in {"customers"} |-> 1]}
    /\ max_query_results \in 0..MaxLimit
    /\ max_conversation_history = MaxHistory
    /\ classification \in Intents
    /\ query_dict = UnknownDescriptor

Translate ==
    /\ last = "init"
    /\ LET r == translate_to_mongodb_query(classification, max_query_results)
       IN  /\ query_dict' = r.value
           /\ exception' = r.exc
    /\ last' = "translate"
    /\ UNCHANGED <<configVars, classification, query_result, response, driver_ops,
                   discovery_ops, steps, context, prompt, previous, collection_info,
                   connVars, memVars, insight, conversation_text, calls>>

SpecTranslate == InitTranslate /\ [][Translate]_vars

----------------------------------------------------------------------------
(* execute_query applied to every descriptor *)

\* the descriptors translate builds, and descriptors of an unhandled type
Descriptors ==
    { translate_to_mongodb_query(i, l).value : i \in Intents, l \in 0..MaxLimit }
    \cup { [UnknownDescriptor EXCEPT !.keys = {"type", "collection"}, !.collection = c] :
             c \in {"customers", "ghost"} }

InitExecute ==
    /\ Fresh
    /\ db \in Databases
    /\ max_query_results = MaxLimit
    /\ max_conversation_history = MaxHistory
    /\ classification = NonDictIntent
    /\ query_dict \in Descriptors

Execute ==
    /\ last = "init"
    /\ \E faults \in SUBSET {1, 2}, elapsed \in Elapsed :
         LET r == execute_query(query_dict, db, faults, 0, elapsed)
         IN  /\ query_result' = r.value
             /\ exception' = r.exc
             /\ driver_ops' = r.ops
    /\ last' = "execute"
    /\ UNCHANGED <<configVars, classification, query_dict, response, discovery_ops,
                   steps, context, prompt, previous, collection_info, connVars,
                   memVars, insight, conversation_text, calls>>

SpecExecute == InitExecute /\ [][Execute]_vars

----------------------------------------------------------------------------
(* ConversationalDatabaseAgent *)

\* lines 462-482: a new MongoClient replaces self.client before the ping; the
\* schema manager and the executor are rebuilt on it when the ping succeeds
Connect ==
    /\ \E ping \in BOOLEAN :
         /\ client' = client + 1
         /\ managers' = IF ping THEN client + 1 ELSE managers
         /\ schema_cache' = IF ping THEN EmptySchema ELSE schema_cache
    /\ exception' = NoExc
    /\ last' = "connect_database"
    /\ UNCHANGED <<configVars, callVars, memVars, insight, conversation_text, calls>>

\* connect_database in a session that connects MaxConnects times
ConnectDatabase ==
    /\ client < MaxConnects
    /\ Connect

\* lines 484-514 on an agent whose schema_manager is None: line 491 raises
ProcessQueryUnconnected ==
    /\ managers = 0
    /\ calls < MaxCalls
    /\ calls' = calls + 1
    /\ exception' = "AttributeError"
    /\ last' = "process_query"
    /\ UNCHANGED <<configVars, callVars, connVars, memVars, insight, conversation_text>>

\* an answer of the classifier LLM: ok is FALSE when the call raises or the
\* answer is no JSON, json is the parsed answer
LLMAnswer(ok, json) == [ok |-> ok, json |-> json]
LLMFailure == LLMAnswer(FALSE, NonDictIntent)

\* the discovery step, were it to run on every call
DiscoverAlways(cache, database, faults) == discover_schema(database, faults)

\* lines 490-492: the schema after the discovery step, and its driver calls
DiscoverIfEmpty(cache, database, faults) ==
    IF cache = EmptySchema
    THEN discover_schema(database, faults)
    ELSE [schema |-> cache, ops |-> <<>>]

\* lines 484-514: one call, from the read of the context to the return.  The
\* LLM answers llm, the driver calls numbered in faults raise, execute_query
\* measures elapsed.
ProcessQuery(user_input, llm, faults, elapsed) ==
    /\ managers # 0
    /\ calls < MaxCalls
    /\ \E ctx \in {get_conversation_context(messages)},
          discovered \in {DiscoverIfEmpty(schema_cache, db, faults)} :
       \E cl \in {classify_query(user_input, discovered.schema, llm.ok, llm.json)} :
       \E translated \in {translate_to_mongodb_query(cl, max_query_results)} :
       \E begun \in {<<"context">>
                     \o (IF schema_cache = EmptySchema THEN <<"discover">> ELSE <<>>)
                     \o <<"classify", "translate">>} :
         /\ schema_cache' = discovered.schema
         /\ discovery_ops' = discovered.ops
         /\ context' = ctx
         /\ prompt' = ClassifierCall(user_input, discovered.schema, llm.ok)
         /\ previous' = [made |-> prompt # NoPrompt, context |-> context, prompt |-> prompt]
         /\ classification' = cl
         /\ IF translated.exc # NoExc THEN
                /\ exception' = translated.exc
                /\ query_dict' = UnknownDescriptor
                /\ query_result' = NoneResult
                /\ response' = <<>>
                /\ driver_ops' = <<>>
                /\ steps' = begun
                /\ UNCHANGED memVars
            ELSE
              \E executed \in {execute_query(translated.value, db, faults,
                                             Len(discovered.ops), elapsed)} :
              \E generated \in {_generate_response(cl, executed.value)} :
                /\ query_dict' = translated.value
                /\ query_result' = executed.value
                /\ driver_ops' = executed.ops
                /\ exception' = generated.exc
                /\ response' = generated.value
                /\ IF generated.exc # NoExc
                   THEN /\ steps' = begun \o <<"execute", "format">>
                        /\ UNCHANGED memVars
                   ELSE
                     /\ steps' = begun \o <<"execute", "format", "append">>
                     /\ conversation_log' =
                          LogAfterExchange(conversation_log,
                                           Exchange(user_input, generated.value,
                                                    executed.value),
                                           max_conversation_history)
                     /\ messages' =
                          MessagesAfterExchange(messages, user_input, generated.value)
                     /\ cleared' = FALSE
    /\ calls' = calls + 1
    /\ last' = "process_query"
    /\ UNCHANGED <<configVars, collection_info, client, managers, insight, conversation_text>>

\* lines 566-571
GetInsights ==
    /\ \E llm \in InsightLLMAnswers :
         insight' = extract_insights(conversation_log, llm.ok, llm.json)
    /\ conversation_text' = InsightConversationText(conversation_log)
    /\ exception' = NoExc
    /\ last' = "get_insights"
    /\ UNCHANGED <<configVars, callVars, connVars, memVars, calls>>

\* lines 573-575 and 392-395
ResetConversation ==
    /\ \E m \in {clear_memory(conversation_log, messages)} :
         /\ conversation_log' = m.log
         /\ messages' = m.messages
    /\ cleared' = TRUE
    /\ exception' = NoExc
    /\ last' = "reset_conversation"
    /\ UNCHANGED <<configVars, callVars, connVars, insight, conversation_text, calls>>

\* the driver calls of one process_query that may raise: none, or one of them
FaultSets == {{}} \cup {{k} : k \in 1..9}

UserInputs == {"How many customers do we have?"}

----------------------------------------------------------------------------
(* A session of the agent *)

\* the intents the classifier returns in a session
SessionIntents ==
    { MkIntent("count", "customers", Fields(TRUE, <<>>), Filter(TRUE, {}), NONE),
      MkIntent("filter", "orders", Fields(TRUE, <<>>), Filter(TRUE, {<<"limit", 1>>}), NONE),
      MkIntent("aggregation", "customers", Fields(TRUE, <<"limit">>), Filter(TRUE, {}), "avg"),
      MkIntent("aggregation", "customers", Fields(TRUE, <<>>), Filter(TRUE, {}), "count"),
      MkIntent("definition", "accounts", Fields(FALSE, <<>>), Filter(FALSE, {}), ABSENT),
      MkIntent("trend", "ghost", Fields(FALSE, <<>>), Filter(FALSE, {}), ABSENT) }

SessionAnswers == {LLMAnswer(TRUE, i) : i \in SessionIntents} \cup {LLMFailure}

\* no driver call raises, or the first, or the last of a call on a filled cache
SessionFaults == {{}, {1}, {2}}

SessionDatabases == { [customers |-> n, orders |-> 1] : n \in {0, MaxDocs} }

Init ==
    /\ Fresh
    /\ db \in SessionDatabases
    /\ max_query_results = MaxLimit
    /\ max_conversation_history \in 0..MaxHistory
    /\ classification = NonDictIntent
    /\ query_dict = UnknownDescriptor

Next ==
    \/ ConnectDatabase
    \/ ProcessQueryUnconnected
    \/ \E u \in UserInputs, llm \in SessionAnswers, faults \in SessionFaults :
            ProcessQuery(u, llm, faults, MaxElapsed)
    \/ GetInsights
    \/ ResetConversation

Spec == Init /\ [][Next]_vars

----------------------------------------------------------------------------
(* A session in which connect_database is called again *)

\* the classifier answers a count, an aggregation that translate refuses, or
\* fails
ReconnectAnswers ==
    { LLMAnswer(TRUE, MkIntent("count", "customers", Fields(TRUE, <<>>),
                               Filter(TRUE, {}), NONE)),
      LLMAnswer(TRUE, MkIntent("aggregation", "customers", Fields(TRUE, <<>>),
                               Filter(TRUE, {}), "count")),
      LLMFailure }

\* no driver call raises, or the first call of the discovery does
ReconnectFaults == {{}, {1}}

\* connect_database, called up to 1 + MaxReconnects times
ConnectDatabaseAgain ==
    /\ client < 1 + MaxReconnects
    /\ Connect

NextReconnect ==
    \/ ConnectDatabaseAgain
    \/ ProcessQueryUnconnected
    \/ \E u \in UserInputs, llm \in ReconnectAnswers, faults \in ReconnectFaults :
            ProcessQuery(u, llm, faults, MaxElapsed)
    \/ GetInsights
    \/ ResetConversation

SpecReconnect == Init /\ [][NextReconnect]_vars

----------------------------------------------------------------------------
(* One process_query call of a connected agent, for every intent *)

\* the intents of a single call: every query type, collections in and out of
\* the database and the static table, every shape of fields and filters
QueryIntents ==
    { MkIntent(qt, c, ef, fl, ag) :
        qt \in QueryTypes,
        c \in {ABSENT, "customers", "accounts", "orders", "ghost"},
        ef \in {Fields(FALSE, <<>>), Fields(TRUE, <<>>), Fields(TRUE, <<"limit">>)},
        fl \in Filters,
        ag \in {ABSENT, "avg"} }
    \cup {NonDictIntent}

QueryAnswers == {LLMAnswer(TRUE, i) : i \in QueryIntents} \cup {LLMFailure}

QueryDatabases == { [customers |-> n, orders |-> 1] : n \in 0..MaxDocs }

\* the agent after __init__ and a successful connect_database
InitQuery ==
    /\ query_result = NoneResult
    /\ response = <<>>
    /\ exception = NoExc
    /\ driver_ops = <<>>
    /\ discovery_ops = <<>>
    /\ steps = <<>>
    /\ context = <<>>
    /\ prompt = NoPrompt
    /\ previous = NoCall
    /\ collection_info = NoInfo
    /\ cleared = FALSE
    /\ client = 1
    /\ managers = 1
    /\ schema_cache = EmptySchema
    /\ conversation_log = <<>>
    /\ messages = <<>>
    /\ insight = NoInsight
    /\ conversation_text = <<>>
    /\ calls = 0
    /\ last = "connect_database"
    /\ db \in QueryDatabases
    /\ max_query_results \in 0..MaxLimit
    /\ max_conversation_history = MaxHistory
    /\ classification = NonDictIntent
    /\ query_dict = UnknownDescriptor

NextQuery ==
    /\ calls = 0
    /\ \E u \in UserInputs, llm \in QueryAnswers, faults \in FaultSets :
            ProcessQuery(u, llm, faults, MaxElapsed)

SpecQuery == InitQuery /\ [][NextQuery]_vars

----------------------------------------------------------------------------
(* The memory manager driven directly: add_exchange, get_conversation_context
   and clear_memory on a ConversationMemoryManager *)

MemoryInputs == {"first question", "second question"}
MemoryOutputs == {<<"an answer">>}

InitMemory ==
    /\ Fresh
    /\ db \in {[c \in {"customers"} |-> 1]}
    /\ max_query_results = MaxLimit
    /\ max_conversation_history \in 0..MaxHistory
    /\ classification = NonDictIntent
    /\ query_dict = UnknownDescriptor

\* lines 359-377; query_result is left to its default None
AddExchange ==
    /\ Len(messages) < 2 * MaxExchanges
    /\ \E human_input \in MemoryInputs, ai_output \in MemoryOutputs :
         /\ conversation_log' =
              LogAfterExchange(conversation_log,
                               Exchange(human_input, ai_output, NoneResult),
                               max_conversation_history)
         /\ messages' = MessagesAfterExchange(messages, human_input, ai_output)
    /\ cleared' = FALSE
    /\ exception' = NoExc
    /\ last' = "add_exchange"
    /\ UNCHANGED <<configVars, callVars, connVars, insight, conversation_text, calls>>

\* lines 379-390
GetConversationContext ==
    /\ context' = get_conversation_context(messages)
    /\ exception' = NoExc
    /\ last' = "get_conversation_context"
    /\ UNCHANGED <<configVars, classification, query_dict, query_result, response,
                   driver_ops, discovery_ops, steps, prompt, previous, collection_info,
                   connVars, memVars, insight, conversation_text, calls>>

NextMemory ==
    \/ AddExchange
    \/ GetConversationContext
    \/ ResetConversation

SpecMemory == InitMemory /\ [][NextMemory]_vars

----------------------------------------------------------------------------
(* The schema manager of a connected agent driven directly: discover_schema
   and get_collection_info *)

\* names in the static table and the database, in one of them, in neither
LookupNames == {"customers", "accounts", "transactions", "orders", "ghost", ""}

InitSchema ==
    /\ InitQuery
    /\ max_query_results = MaxLimit

\* lines 53-89
DiscoverSchema ==
    /\ \E faults \in FaultSets :
         \E discovered \in {discover_schema(db, faults)} :
           /\ schema_cache' = discovered.schema
           /\ discovery_ops' = discovered.ops
    /\ exception' = NoExc
    /\ last' = "discover_schema"
    /\ UNCHANGED <<configVars, classification, query_dict, query_result, response,
                   driver_ops, steps, context, prompt, previous, collection_info,
                   client, managers, memVars, insight, conversation_text, calls>>

\* lines 91-99
GetCollectionInfo ==
    /\ \E collection_name \in LookupNames :
         collection_info' =
             [name |-> collection_name,
              info |-> get_collection_info(collection_name, schema_cache)]
    /\ exception' = NoExc
    /\ last' = "get_collection_info"
    /\ UNCHANGED <<configVars, classification, query_dict, query_result, response,
                   driver_ops, discovery_ops, steps, context, prompt, previous,
                   connVars, memVars, insight, conversation_text, calls>>

NextSchema ==
    \/ DiscoverSchema
    \/ GetCollectionInfo

SpecSchema == InitSchema /\ [][NextSchema]_vars

----------------------------------------------------------------------------
(* A conversation on a connected agent whose schema was discovered:
   exchanges are added, get_insights and reset_conversation are called *)

InitInsights ==
    /\ db = [c \in {"customers"} |-> 1]
    /\ max_query_results = MaxLimit
    /\ max_conversation_history = MaxExchanges
    /\ classification = NonDictIntent
    /\ query_dict = UnknownDescriptor
    /\ query_result = NoneResult
    /\ response = <<>>
    /\ exception = NoExc
    /\ driver_ops = <<>>
    /\ \E discovered \in {discover_schema(db, faults) : faults \in {{}, {1}}} :
         /\ schema_cache = discovered.schema
         /\ discovery_ops = discovered.ops
    /\ steps = <<>>
    /\ context = <<>>
    /\ prompt = NoPrompt
    /\ previous = NoCall
    /\ collection_info = NoInfo
    /\ cleared = FALSE
    /\ client = 1
    /\ managers = 1
    /\ conversation_log = <<>>
    /\ messages = <<>>
    /\ insight = NoInsight
    /\ conversation_text = <<>>
    /\ calls = 0
    /\ last = "discover_schema"

NextInsights ==
    \/ AddExchange
    \/ GetInsights
    \/ ResetConversation

SpecInsights == InitInsights /\ [][NextInsights]_vars

----------------------------------------------------------------------------
(* Claims about translate_to_mongodb_query (SpecTranslate) *)

Translated == last = "translate"
IntentType == Get(classification, "query_type", NONE)
IntentCollection == Get(classification, "collection", NONE)
LastStage == query_dict.pipeline[Len(query_dict.pipeline)]

\* C1: translate_to_mongodb_query is total: for every intent object (a dict,
\* whatever its query_type, its extracted_fields empty or its keys missing) it
\* returns one descriptor and raises nothing, and a query_type outside
\* {definition, filter, count, aggregation, trend} gives the Unknown descriptor.
C1_TranslateTotal ==
    (Translated /\ classification.dict) =>
        /\ exception = NoExc
        /\ (IntentType \notin {"definition", "filter", "count", "aggregation", "trend"}
              => query_dict = UnknownDescriptor)

\* C2: for an aggregation intent the last stage of the pipeline is the group
\* stage of the operator named by aggregation_type (sum, avg, max, min) over
\* the first extracted field, and the group stage {count: sum(1)} in every
\* other case (no operator, "count", an unrecognised operator, no field).
C2_AggregationLastStage ==
    (Translated /\ classification.dict /\ IntentType = "aggregation") =>
        /\ exception = NoExc
        /\ query_dict.type = "aggregate"
        /\ Len(query_dict.pipeline) >= 1
        /\ LET ag == Get(classification, "aggregation_type", ABSENT)
               ef == Get(classification, "extracted_fields", <<>>)
           IN  IF ag \in {"sum", "avg", "max", "min"} /\ Len(ef) >= 1
               THEN LastStage = [stage |-> "$group", cond |-> {}, id |-> <<NONE>>,
                                 key |-> "result",
                                 acc |-> (CASE ag = "sum" -> "$sum" [] ag = "avg" -> "$avg"
                                            [] ag = "max" -> "$max" [] ag = "min" -> "$min"),
                                 arg |-> <<"$", ef[1]>>]
               ELSE LastStage = [stage |-> "$group", cond |-> {}, id |-> <<NONE>>,
                                 key |-> "count", acc |-> "$sum", arg |-> <<"1">>]

\* C3: for a definition intent translate returns a Definition descriptor that
\* holds the type and intent.collection and nothing else, so the filters, the
\* extracted fields and the aggregation type of the intent do not show in it.
C3_DefinitionCollectionOnly ==
    (Translated /\ classification.dict /\ IntentType = "definition") =>
        /\ exception = NoExc
        /\ query_dict.keys = {"type", "collection"}
        /\ query_dict.type = "definition"
        /\ query_dict.collection = IntentCollection
        /\ query_dict.filter = {}
        /\ query_dict.pipeline = <<>>
        /\ query_dict.limit = 0

\* C3 witness: a definition intent carrying filters, fields and an operator
C3_Witness ==
    /\ Translated
    /\ IntentType = "definition"
    /\ IntentCollection = "customers"
    /\ Get(classification, "filters", {}) # {}
    /\ Get(classification, "extracted_fields", <<>>) # <<>>
    /\ Get(classification, "aggregation_type", ABSENT) = "avg"
    /\ query_dict.type = "definition"

----------------------------------------------------------------------------
(* Claims about execute_query (SpecExecute) *)

Executed == last = "execute"
DataOps == {"find", "count_documents", "aggregate"}
OpsIssued == {driver_ops[i] : i \in 1..Len(driver_ops)}
DescriptorCollection == Get(query_dict, "collection", NONE)

\* C4: a Find descriptor with limit L >= 0 executed on an existing collection
\* gives a result with at most L documents and count <= L.
C4_FindAtMostLimit ==
    (Executed /\ query_dict.type = "find" /\ query_dict.limit >= 0
       /\ DescriptorCollection \in DOMAIN db /\ query_result.success) =>
        /\ Len(query_result.data.docs) <= query_dict.limit
        /\ query_result.count <= query_dict.limit

\* C9: execute_query issues no find, count or aggregate operation on a
\* collection that is missing from the descriptor or absent from the live
\* collection list; once the list has been read such a descriptor gives a
\* failed result saying "not found".
C9_NoOperationOnAbsentCollection ==
    Executed =>
        /\ \A o \in OpsIssued : o.op \in DataOps => o.collection \in DOMAIN db
        /\ (/\ query_dict.type # "definition"
            /\ DescriptorCollection \notin DOMAIN db
            /\ \A o \in OpsIssued : o.ok)
           => /\ query_result.object = "QueryResult"
              /\ ~query_result.success
              /\ Contains(query_result.error_message, <<"not found">>)
              /\ \A o \in OpsIssued : o.op \notin DataOps

\* C9 witness: a count on a collection the database does not hold, refused
\* after the list was read
C9_Witness ==
    /\ Executed
    /\ query_dict.type = "count"
    /\ DescriptorCollection = "ghost"
    /\ "customers" \in DOMAIN db
    /\ driver_ops = <<Op("list_collection_names", "", TRUE)>>
    /\ ~query_result.success
    /\ Contains(query_result.error_message, <<"not found">>)

\* C10: execute_query raises nothing; when a driver call raises, the call
\* returns a QueryResult with success = false whose error_message is the
\* message of the exception.
C10_ExecuteNeverRaises ==
    Executed =>
        /\ exception = NoExc
        /\ (\E o \in OpsIssued : ~o.ok)
           => /\ query_result.object = "QueryResult"
              /\ ~query_result.success
              /\ query_result.error_message = DriverError

\* C10 witness: the driver raises in the find of a Find descriptor, after the
\* list was read
C10_Witness ==
    /\ Executed
    /\ query_dict.type = "find"
    /\ driver_ops = <<Op("list_collection_names", "", TRUE), Op("find", "customers", FALSE)>>
    /\ ~query_result.success
    /\ query_result.error_message = DriverError

\* C11: execute_query returns a QueryResult object for every descriptor, also
\* for a descriptor of a type other than definition, find, count and aggregate
\* whose collection is in the live database: no path returns without one.
C11_AlwaysResultObject ==
    Executed =>
        /\ exception = NoExc
        /\ query_result.object = "QueryResult"

----------------------------------------------------------------------------
(* Claims about process_query (SpecQuery), get_insights (Spec) and
   connect_database (SpecReconnect) *)

Processed == last = "process_query"
StepsDone == {steps[i] : i \in 1..Len(steps)}
DriverWorked == \A o \in OpsIssued : o.ok

C6_InsightsEmptyAfterReset ==
    (last = "get_insights" /\ cleared /\ conversation_log = <<>>) =>
        /\ insight.data_gaps = <<>>
        /\ insight.suggested_queries = <<>>

\* C7: when the classifier labels the query a count on a collection c of the
\* database with empty filters, c holds k documents and the driver works,
\* process_query builds Count{collection = c, filter = {}}, the result has
\* success = true, data = {count: k} and count = k, and the response contains
\* k and c.
C7_CountEndToEnd ==
    (/\ Processed
     /\ classification.dict
     /\ IntentType = "count"
     /\ IntentCollection \in DOMAIN db
     /\ Get(classification, "filters", {}) = {}
     /\ DriverWorked) =>
        LET c == IntentCollection
            k == db[c]
        IN  /\ exception = NoExc
            /\ query_dict.type = "count"
            /\ query_dict.keys = {"type", "collection", "filter"}
            /\ query_dict.collection = c
            /\ query_dict.filter = {}
            /\ query_result.object = "QueryResult"
            /\ query_result.success
            /\ query_result.data.kind = "count"
            /\ query_result.data.count = k
            /\ query_result.count = k
            /\ Contains(response, <<ToString(k)>>)
            /\ Contains(response, <<c>>)

\* C7 witness: the customers collection holds MaxDocs documents and is counted
C7_Witness ==
    /\ Processed
    /\ IntentType = "count"
    /\ IntentCollection = "customers"
    /\ Get(classification, "filters", {}) = {}
    /\ db["customers"] = MaxDocs
    /\ query_result.success
    /\ query_result.count = MaxDocs
    /\ Contains(response, <<ToString(MaxDocs)>>)

\* C8: when the classifier names a collection that is not in the database,
\* with query_type filter, count, aggregation or trend, and the driver works,
\* process_query returns a result with success = false and an error_message
\* containing "not found", and a response that contains that message and asks
\* to rephrase.
C8_UnknownCollectionEndToEnd ==
    (/\ Processed
     /\ classification.dict
     /\ IntentType \in {"filter", "count", "aggregation", "trend"}
     /\ IntentCollection \notin DOMAIN db
     /\ DriverWorked) =>
        /\ exception = NoExc
        /\ query_result.object = "QueryResult"
        /\ ~query_result.success
        /\ Contains(query_result.error_message, <<"not found">>)
        /\ Contains(response, query_result.error_message)
        /\ Contains(response, <<RephraseText>>)

\* the steps of a call that runs to its end, with and without discovery
AllSteps(discovers) ==
    <<"context">> \o (IF discovers THEN <<"discover">> ELSE <<>>)
    \o <<"classify", "translate", "execute", "format", "append">>

\* C14: within a process_query call on a connected agent the steps occur in
\* the order discovery (only if the cache is empty), classification,
\* translation, execution, formatting, append, each at most once; the
\* exchange is appended only once the response text exists, and the context
\* of the call is read before the append, so it leaves out the current turn.
C14_StepOrder ==
    [][(calls' = calls + 1 /\ managers # 0) =>
         LET full == AllSteps(schema_cache = EmptySchema)
         IN  /\ \E k \in (Len(full) - 4)..Len(full) : steps' = SubSeq(full, 1, k)
             /\ (discovery_ops' # <<>>) <=> (schema_cache = EmptySchema)
             /\ exception' = NoExc => steps' = full
             /\ context' = get_conversation_context(messages)
             /\ IF "append" \in {steps'[i] : i \in 1..Len(steps')}
                THEN /\ response' # <<>>
                     /\ messages' = messages \o <<HumanMessage(<<prompt'.query>>),
                                                  AIMessage(response')>>
                     /\ conversation_log'[Len(conversation_log')].ai_output = response'
                ELSE UNCHANGED memVars
      ]_vars

\* C14 witness: a second call on a filled cache runs every step but the
\* discovery, with the first turn as its context
C14_Witness ==
    /\ Processed
    /\ calls = 2
    /\ steps = AllSteps(FALSE)
    /\ discovery_ops = <<>>
    /\ context # <<>>
    /\ Len(messages) = 4

\* C15: connect_database on an agent that is already connected leaves it as
\* it was after the first successful call: the same client in use, the
\* schema manager (and its cache) and the executor kept, no further client
\* opened.
C15_ConnectIdempotent ==
    [][(managers # 0 /\ last' = "connect_database") =>
         /\ client' = client
         /\ managers' = managers
         /\ schema_cache' = schema_cache
      ]_vars

NamedFields == {"query_type", "collection", "intent", "confidence", "extracted_fields",
                "filters", "aggregation_type"}

\* C16: classify_query raises nothing; when the LLM call fails or its answer
\* cannot be parsed it returns the default intent (query_type and collection
\* "unknown", confidence 0, no fields, no filters); every value it returns is
\* an intent object carrying the seven named fields.
C16_ClassifyTotalAndShaped ==
    (Processed /\ "classify" \in StepsDone) =>
        /\ "translate" \in StepsDone
        /\ (~prompt.answered =>
              /\ classification = DefaultIntent(prompt.query)
              /\ classification.query_type = "unknown"
              /\ classification.collection = "unknown"
              /\ classification.confidence = 0
              /\ classification.extracted_fields = <<>>
              /\ classification.filters = {})
        /\ classification.dict
        /\ NamedFields \subseteq classification.keys

\* C18: the context of earlier exchanges is part of the classifier's input:
\* two process_query calls with the same text and the same schema but
\* different conversation contexts give the classifier different inputs.
C18_ContextReachesClassifier ==
    (/\ Processed
     /\ previous.made
     /\ prompt.query = previous.prompt.query
     /\ prompt.schema_info = previous.prompt.schema_info
     /\ context # previous.context) =>
        prompt.input # previous.prompt.input

\* C19: a populated schema cache is kept across process_query, get_insights
\* and connect_database, and reset_conversation is what empties it.
C19_CacheKeptUntilReset ==
    [][schema_cache # EmptySchema =>
         IF last' = "reset_conversation"
         THEN schema_cache' = EmptySchema
         ELSE schema_cache' = schema_cache
      ]_vars

----------------------------------------------------------------------------
(* Claims about the conversation memory (SpecMemory) *)

\* the number of exchanges added since the last clear_memory: save_context
\* appends two messages per exchange and only clear() removes any
Added == Len(messages) \div 2

\* the i-th exchange added since the last clear_memory, as its two turns
AddedTurns(i) == <<messages[2 * i - 1], messages[2 * i]>>

\* the text of exchanges first..last: a Human turn then an Assistant turn each
RenderedExchanges(first, last_one) ==
    Join([j \in 1..(2 * (last_one - first + 1)) |->
            LET m == messages[2 * (first - 1) + j]
            IN  IF j % 2 = 1 THEN <<"Human: ">> \o m.content
                ELSE <<"Assistant: ">> \o m.content], "\n")

\* C12: after n add_exchange calls and for every maximum N (0 and 1 included)
\* the log holds the most recent min(n, N) exchanges in insertion order: its
\* length never exceeds N and the evicted entries are the oldest.
C12_LogHoldsMostRecent ==
    LET n == Added
        k == Min(n, max_conversation_history)
    IN  /\ Len(conversation_log) <= max_conversation_history
        /\ Len(conversation_log) = k
        /\ \A i \in 1..k :
              /\ <<conversation_log[i].human_input>> = AddedTurns(n - k + i)[1].content
              /\ conversation_log[i].ai_output = AddedTurns(n - k + i)[2].content

\* C13: after clear_memory, and until the next add_exchange, the log has
\* length 0 and get_conversation_context returns the empty text.
C13_ClearEmptiesLogAndContext ==
    cleared =>
        /\ Len(conversation_log) = 0
        /\ get_conversation_context(messages) = <<>>
        /\ (last = "get_conversation_context" => context = <<>>)

\* C13 witness: the context is read after a clear_memory, before any
\* add_exchange, and is empty
C13_Witness ==
    /\ cleared
    /\ last = "get_conversation_context"
    /\ context = <<>>
    /\ conversation_log = <<>>

\* C17 as stated: after n exchanges since the last clear the context renders
\* the last min(n, 10) exchanges, a Human turn then an Assistant turn each, in
\* chronological order.
C17_ContextRendersLastTenExchanges ==
    last = "get_conversation_context" =>
        context = RenderedExchanges(Added - Min(Added, 10) + 1, Added)

\* C17 amended: the context renders the last min(n, 5) exchanges (the last 10
\* messages), a Human turn then an Assistant turn each, in chronological order.
C17_ContextRendersLastFiveExchanges ==
    last = "get_conversation_context" =>
        context = RenderedExchanges(Added - Min(Added, 5) + 1, Added)

\* C17 witness: six exchanges were added and the context shows the last five
C17_Witness ==
    /\ last = "get_conversation_context"
    /\ Added = 6
    /\ context = RenderedExchanges(2, 6)
    /\ context # RenderedExchanges(1, 6)

----------------------------------------------------------------------------
(* Claims about the schema manager (SpecSchema) *)

\* C20: get_collection_info(name) returns the static entry whenever name is
\* in the static table, also when the cache holds another entry for the name;
\* otherwise the entry of the cache if there is one; otherwise the empty dict.
C20_StaticThenCacheThenEmpty ==
    last = "get_collection_info" =>
        LET name == collection_info.name
            info == collection_info.info
        IN  IF name \in {"accounts", "customers", "transactions"}
            THEN info = [ description |-> StaticDescription(name),
                          fields |-> StaticFields(name),
                          relationships |-> StaticRelationships(name) ]
            ELSE IF name \in DOMAIN schema_cache
            THEN info = schema_cache[name]
            ELSE info = EmptySchema

\* C20 witness: customers is looked up while the cache holds the discovered
\* entry of customers, and the static entry comes back
C20_Witness ==
    /\ last = "get_collection_info"
    /\ collection_info.name = "customers"
    /\ "customers" \in DOMAIN schema_cache
    /\ schema_cache["customers"].document_count = MaxDocs
    /\ collection_info.info = StaticEntry("customers")
    /\ DOMAIN collection_info.info # DOMAIN schema_cache["customers"]

\* the driver operations of the last discovery, and the one that raised
DiscoveryOps == {discovery_ops[i] : i \in 1..Len(discovery_ops)}
DiscoveryFailed == \E o \in DiscoveryOps : ~o.ok

\* collection c comes before collection f in the order of the driver's list
ListedBefore(c, f) ==
    \E i, j \in 1..Len(CollectionOrder) :
        /\ CollectionOrder[i] = c
        /\ CollectionOrder[j] = f
        /\ i < j

\* C21: discover_schema raises nothing; when the driver fails while the k-th
\* collection is processed the call returns and caches exactly the entries of
\* the collections fully processed before, and a collection whose sample is
\* empty never shows in the schema.
C21_DiscoveryKeepsWhatWasProcessed ==
    last = "discover_schema" =>
        /\ exception = NoExc
        /\ \A c \in DOMAIN schema_cache : c \in DOMAIN db /\ db[c] > 0
        /\ \A c \in DOMAIN schema_cache : schema_cache[c].document_count = db[c]
        /\ (~DiscoveryFailed => DOMAIN schema_cache = {c \in DOMAIN db : db[c] > 0})
        /\ \A o \in DiscoveryOps :
              ~o.ok => DOMAIN schema_cache =
                         {c \in DOMAIN db : db[c] > 0 /\ ListedBefore(c, o.collection)}

\* C21 witness: the driver fails on orders after customers was processed, and
\* the schema holds customers alone
C21_Witness ==
    /\ last = "discover_schema"
    /\ db["customers"] = MaxDocs
    /\ \E o \in DiscoveryOps : ~o.ok /\ o.collection = "orders"
    /\ DOMAIN schema_cache = {"customers"}

----------------------------------------------------------------------------
(* Further claims about translate_to_mongodb_query (SpecTranslate) and
   execute_query (SpecExecute) *)

\* the first name of the priority list among the static fields of c, and
\* "created_at" when c is not in the static table or holds none of them
ExpectedDateField(c) ==
    LET priority == <<"date", "created_at", "timestamp", "birthdate",
                      "bucket_start_date", "bucket_end_date">>
        static == {StaticFields(c)[j] : j \in 1..Len(StaticFields(c))}
        present == {i \in 1..Len(priority) : priority[i] \in static}
    IN  IF c \in {"accounts", "customers", "transactions"} /\ present # {}
        THEN priority[CHOOSE i \in present : \A k \in present : i <= k]
        ELSE "created_at"

\* C23: for a trend intent translate returns an aggregate descriptor of two
\* stages, a group by the month of the date field with a count per bucket,
\* then a sort ascending by the bucket key; the date field is the first name
\* of the priority list in the static schema of the collection, else
\* "created_at".
C23_TrendPipeline ==
    (Translated /\ classification.dict /\ IntentType = "trend") =>
        /\ exception = NoExc
        /\ query_dict.type = "aggregate"
        /\ query_dict.keys = {"type", "collection", "pipeline"}
        /\ query_dict.collection = IntentCollection
        /\ Len(query_dict.pipeline) = 2
        /\ query_dict.pipeline[1] =
              [stage |-> "$group", cond |-> {},
               id |-> <<"$dateToString", "%Y-%m", "$", ExpectedDateField(IntentCollection)>>,
               key |-> "count", acc |-> "$sum", arg |-> <<"1">>]
        /\ query_dict.pipeline[2] =
              [stage |-> "$sort", cond |-> {}, id |-> <<>>, key |-> "_id", acc |-> "",
               arg |-> <<"1">>]

\* C23 witness: a trend over transactions groups by bucket_start_date
C23_Witness ==
    /\ Translated
    /\ IntentType = "trend"
    /\ IntentCollection = "transactions"
    /\ Len(query_dict.pipeline) = 2
    /\ query_dict.pipeline[1].id = <<"$dateToString", "%Y-%m", "$", "bucket_start_date">>

\* C24: executing a Definition descriptor issues no driver operation; it
\* succeeds with the static description, fields and relationships exactly
\* when the collection is in the static table and gives a failed result
\* otherwise, whether or not the collection is in the live database.
C24_DefinitionFromStaticTable ==
    (Executed /\ query_dict.type = "definition") =>
        /\ exception = NoExc
        /\ driver_ops = <<>>
        /\ query_result.object = "QueryResult"
        /\ IF DescriptorCollection \in {"accounts", "customers", "transactions"}
           THEN /\ query_result.success
                /\ query_result.data.kind = "definition"
                /\ query_result.data.definition = StaticDescription(DescriptorCollection)
                /\ query_result.data.fields = StaticFields(DescriptorCollection)
                /\ query_result.data.relationships = StaticRelationships(DescriptorCollection)
           ELSE /\ ~query_result.success
                /\ query_result.error_message # <<>>

\* C24 witness: accounts is defined from the static table although the
\* database holds no such collection
C24_Witness ==
    /\ Executed
    /\ query_dict.type = "definition"
    /\ DescriptorCollection = "accounts"
    /\ "accounts" \notin DOMAIN db
    /\ DOMAIN db # {}
    /\ driver_ops = <<>>
    /\ query_result.success
    /\ query_result.data.definition = StaticDescription("accounts")

\* C25: every QueryResult execute_query returns, on every branch, carries in
\* execution_time_ms the time elapsed since the start of the call, never a
\* fixed constant.
C25_ElapsedOnEveryBranch ==
    (Executed /\ query_result.object = "QueryResult") =>
        query_result.execution_time_ms \in Elapsed

\* C26: a QueryResult with success = false has no data, count 0 and an error
\* message; one with success = true has no error message and its count is
\* the number of documents for find and aggregate, the counted number for
\* count and 1 for definition.
C26_ResultShape ==
    (Executed /\ query_result.object = "QueryResult") =>
        IF ~query_result.success
        THEN /\ query_result.data = NoData
             /\ query_result.count = 0
             /\ query_result.error_message # <<>>
        ELSE /\ query_result.error_message = <<>>
             /\ query_result.query_type \in {"find", "aggregate", "count", "definition"}
             /\ query_result.query_type = "find" =>
                    /\ query_result.data.kind = "list"
                    /\ query_result.count = Len(query_result.data.docs)
             /\ query_result.query_type = "aggregate" =>
                    /\ query_result.data.kind = "list"
                    /\ query_result.count = Len(query_result.data.rows)
             /\ query_result.query_type = "count" =>
                    /\ query_result.data.kind = "count"
                    /\ query_result.count = query_result.data.count
                    /\ query_result.count =
                         Cardinality({i \in 1..db[DescriptorCollection] :
                                        \A p \in query_dict.filter : Document(i)[p[1]] = p[2]})
             /\ query_result.query_type = "definition" => query_result.count = 1

\* C26 witness: a find that returns two documents, counted as two
C26_Witness ==
    /\ Executed
    /\ query_dict.type = "find"
    /\ query_result.success
    /\ Len(query_result.data.docs) = 2
    /\ query_result.count = 2

----------------------------------------------------------------------------
(* Further claims about process_query (SpecQuery, SpecReconnect) *)

C27_OneExchangePerCall ==
    (Processed /\ exception = NoExc) =>
        /\ response # <<>>
        /\ messages = <<HumanMessage(<<prompt.query>>), AIMessage(response)>>
        /\ Len(conversation_log) = 1
        /\ conversation_log[1].human_input = prompt.query
        /\ conversation_log[1].ai_output = response
        /\ conversation_log[1].query_result = query_result

\* C27 witness: the classifier failed, the result is failed, and the exchange
\* is in the log
C27_Witness ==
    /\ Processed
    /\ exception = NoExc
    /\ ~prompt.answered
    /\ classification.query_type = "unknown"
    /\ ~query_result.success
    /\ Len(conversation_log) = 1
    /\ conversation_log[1].query_result = query_result

\* C28: process_query runs the discovery exactly when the cache is empty at
\* the start of the call: once a call has had a non-empty schema no later
\* call discovers again, and as long as the discovery yields an empty schema
\* every call repeats it.
C28_DiscoveryOnlyWhileEmpty ==
    [][(calls' = calls + 1 /\ managers # 0) =>
         LET discovers == "discover" \in {steps'[i] : i \in 1..Len(steps')}
         IN  /\ discovers <=> (schema_cache = EmptySchema)
             /\ (prompt # NoPrompt /\ prompt.schema_info # EmptySchema) => ~discovers
             /\ (prompt # NoPrompt /\ prompt.schema_info = EmptySchema) => discovers
      ]_vars

----------------------------------------------------------------------------
(* Claims about reset_conversation and get_insights (SpecInsights) *)

\* the text of exchanges first..n of the log, one "User:" and one
\* "Assistant:" part each
RECURSIVE ExchangesText(_, _)
ExchangesText(first, n) ==
    IF first > n THEN <<>>
    ELSE <<"User: ", conversation_log[first].human_input, "\nAssistant: ">>
         \o conversation_log[first].ai_output
         \o (IF first < n THEN <<"\n">> ELSE <<>>)
         \o ExchangesText(first + 1, n)

\* C29: reset_conversation leaves the database connection, the schema cache
\* and the executor unchanged; get_insights leaves the conversation log and
\* the running context unchanged, and the conversation text it sends holds
\* the last 5 exchanges of the log and no other.
C29_ResetAndInsightsFrame ==
    [][/\ last' = "reset_conversation" =>
            UNCHANGED <<db, client, managers, schema_cache, max_query_results>>
       /\ last' = "get_insights" =>
            /\ UNCHANGED <<conversation_log, messages, context, cleared>>
            /\ conversation_text' =
                  ExchangesText(IF Len(conversation_log) > 5
                                THEN Len(conversation_log) - 4 ELSE 1,
                                Len(conversation_log))
      ]_vars

\* C29 witness: get_insights on a log of six exchanges rendered the last
\* five, with a discovered schema in the cache
C29_Witness ==
    /\ last = "get_insights"
    /\ Len(conversation_log) = 6
    /\ conversation_log[1].human_input # conversation_log[2].human_input
    /\ conversation_text = ExchangesText(2, 6)
    /\ schema_cache # EmptySchema

\* C29 witness of the reset: the log was emptied and the discovered schema
\* is still in the cache
C29_ResetWitness ==
    /\ last = "reset_conversation"
    /\ conversation_log = <<>>
    /\ conversation_text # <<>>
    /\ schema_cache # EmptySchema
    /\ managers = 1

====
